---- MODULE Spec2Model ----
(***************************************************************************)
(* Model of the finance API of project50k-backend                          *)
(* (src/app/api/v1/finance.py over the tables of                           *)
(* src/app/services/database/models/finance/model.py).                     *)
(*                                                                         *)
(* A table is the sequence of its rows in insertion order.  Amounts are    *)
(* whole currency units; a percentage rounded to one decimal is kept in    *)
(* tenths of a percent (100.0 % is 1000).  An optional value is <<>> for   *)
(* None and <<v>> for v.  today is the date the clock shows and req[p] the  *)
(* request that client p has in flight: the handler it runs, the await it  *)
(* has reached, what it holds in its session and, once the handler has     *)
(* returned, its response.                                                 *)
(***************************************************************************)
EXTENDS Integers, Sequences, FiniteSets, TLC

VARIABLES goal, debts, nextDebtId, txs, nextTxId, budgets, today, req

vars == <<goal, debts, nextDebtId, txs, nextTxId, budgets, today, req>>

(***************************************************************************)
(* Bounds of the model.                                                    *)
(***************************************************************************)
\* largest amount a request carries (amounts range over -1..MaxAmount)
MaxAmount == 2
\* number of debt rows ever created
MaxDebts == 2
\* number of transaction rows ever created
MaxTxs == 2
\* number of date changes of the clock in one behaviour
MaxTicks == 1
\* largest total_months a goal request carries (from -1)
MaxMonths == 3

None == <<>>
Some(v) == <<v>>
IsNone(o) == o = <<>>

Max(a, b) == IF a >= b THEN a ELSE b
Min(a, b) == IF a <= b THEN a ELSE b
Abs(a) == IF a < 0 THEN -a ELSE a

\* round(n / d) for integers n and d > 0: the quotient rounded to the
\* nearest integer, ties to the even one (the double n / d is a tie only
\* when the quotient is one)
RoundHalfEven(n, d) ==
    LET q == n \div d
        r == n % d
    IN  IF 2 * r < d THEN q
        ELSE IF 2 * r > d THEN q + 1
        ELSE IF q % 2 = 0 THEN q ELSE q + 1

(***************************************************************************)
(* round((a / b) * 100, 1) as the interpreter computes it.  a / b is the   *)
(* double nearest to the quotient, the product with 100 is rounded to a    *)
(* double again, and round(.., 1) then gives the decimal nearest to that   *)
(* double.  The result differs from the exactly rounded value only when    *)
(* 1000 * a / b lies halfway between two integers: the side is then        *)
(* decided by the two rounding errors, which are followed here on the      *)
(* remainders of the binary long divisions.                                *)
(***************************************************************************)
\* 2^k
RECURSIVE Pow2(_)
Pow2(k) == IF k = 0 THEN 1 ELSE 2 * Pow2(k - 1)

\* 2^k modulo n
RECURSIVE Pow2Mod(_, _)
Pow2Mod(k, n) == IF k = 0 THEN 1 % n ELSE (2 * Pow2Mod(k - 1, n)) % n

\* the number of binary digits of q >= 0
RECURSIVE BitLen(_)
BitLen(q) == IF q = 0 THEN 0 ELSE 1 + BitLen(q \div 2)

\* n more binary digits of the quotient r / b (r < b): the remainder left
\* and the last digit produced
RECURSIVE FracBits(_, _, _, _)
FracBits(r, b, n, last) ==
    IF n = 0 THEN <<r, last>>
    ELSE FracBits((2 * r) % b, b, n - 1, (2 * r) \div b)

\* the first 1 digit of r / b (0 < r < b): the remainder left after it and
\* its exponent, counted down from e
RECURSIVE LeadingBit(_, _, _)
LeadingBit(r, b, e) ==
    IF 2 * r >= b THEN <<2 * r - b, e>> ELSE LeadingBit(2 * r, b, e - 1)

\* the double a / b for a > 0, b > 0: its binary exponent ex, and err with
\* double = a / b + (err / b) * 2^(ex - 52), from rounding the 53-digit
\* quotient to nearest, ties to the even digit
FloatDiv(a, b) ==
    LET q == a \div b
        first == LeadingBit(a % b, b, -1)
        ex == IF q >= 1 THEN BitLen(q) - 1 ELSE first[2]
        digits == IF q >= 1 THEN FracBits(a % b, b, 52 - ex, q % 2)
                  ELSE FracBits(first[1], b, 52, 1)
        r == digits[1]
    IN  [ex |-> ex,
         err |-> IF r = 0 THEN 0
                 ELSE IF 2 * r < b THEN -r
                 ELSE IF 2 * r > b THEN b - r
                 ELSE IF digits[2] = 0 THEN -r ELSE b - r]

\* floor(log2(m / 20)) for m > 0
RECURSIVE Log2Of20th(_)
Log2Of20th(m) ==
    IF m >= 20 THEN BitLen(m \div 20) - 1 ELSE Log2Of20th(2 * m) - 1

\* round((a / b) * 100, 1) in tenths, for a >= 0 and b > 0.  Off a tie the
\* errors are too small to change the nearest tenth.  On a tie the exact
\* percentage is m / 20 with m odd; in units of the last digit of the
\* product it is y0 + rt / 20, the product before rounding is that plus
\* 100 * err / (b * 2^g), and the double is y0 + shift.
RoundPercentAbs(a, b) ==
    IF (2000 * a) % b # 0 \/ ((2000 * a) \div b) % 2 = 0
    THEN RoundHalfEven(1000 * a, b)
    ELSE LET m == (2000 * a) \div b
             low == (m - 1) \div 2
             x == FloatDiv(a, b)
             ey == Log2Of20th(m)
             g == ey - x.ex
             w == ((m % 40) * Pow2Mod(52 - ey, 40)) % 40
             y0odd == w \div 20
             rt == w % 20
             n == rt * b * Pow2(g) + 2000 * x.err
             d == 20 * b * Pow2(g)
             fl == n \div d
             rm == n % d
             shift == IF 2 * rm < d THEN fl
                      ELSE IF 2 * rm > d THEN fl + 1
                      ELSE IF (y0odd + fl) % 2 = 0 THEN fl ELSE fl + 1
         IN  IF shift >= 1 THEN low + 1
             ELSE IF shift = 0 /\ rt = 0
             THEN (IF low % 2 = 0 THEN low ELSE low + 1)
             ELSE low

\* round((a / b) * 100, 1) in tenths of a percent, for b > 0
RoundPercent(a, b) ==
    IF a >= 0 THEN RoundPercentAbs(a, b) ELSE - RoundPercentAbs(-a, b)

(***************************************************************************)
(* Calendar dates: datetime.date as [year, month, day].                    *)
(***************************************************************************)
Date(y, m, d) == [year |-> y, month |-> m, day |-> d]

IsLeap(y) == (y % 4 = 0 /\ y % 100 # 0) \/ y % 400 = 0

DaysInMonth(y, m) ==
    IF m = 2 THEN (IF IsLeap(y) THEN 29 ELSE 28)
    ELSE IF m \in {4, 6, 9, 11} THEN 30 ELSE 31

DateLT(a, b) ==
    \/ a.year < b.year
    \/ a.year = b.year /\ a.month < b.month
    \/ a.year = b.year /\ a.month = b.month /\ a.day < b.day

DateLE(a, b) == a = b \/ DateLT(a, b)

\* datetime.MINYEAR and datetime.MAXYEAR: a date outside them cannot be built
MinYear == 1
MaxYear == 9999

DateInRange(d) == MinYear <= d.year /\ d.year <= MaxYear

\* date + relativedelta(months=n): the month moves by n, the day is cut to
\* the last day of the month reached.
AddMonths(d, n) ==
    LET k == d.year * 12 + (d.month - 1) + n
        y == k \div 12
        m == (k % 12) + 1
    IN  Date(y, m, Min(d.day, DaysInMonth(y, m)))

\* date + timedelta(days=1)
NextDay(d) ==
    IF d.day < DaysInMonth(d.year, d.month) THEN Date(d.year, d.month, d.day + 1)
    ELSE IF d.month < 12 THEN Date(d.year, d.month + 1, 1)
    ELSE Date(d.year + 1, 1, 1)

\* date - timedelta(days=1)
PrevDay(d) ==
    IF d.day > 1 THEN Date(d.year, d.month, d.day - 1)
    ELSE IF d.month > 1 THEN Date(d.year, d.month - 1, DaysInMonth(d.year, d.month - 1))
    ELSE Date(d.year - 1, 12, 31)

\* today.replace(day=1)
MonthStart(d) == Date(d.year, d.month, 1)

\* the month end taken from the date itself instead of from month_start
MonthEndFromToday(d) == PrevDay(AddMonths(d, 1))

\* (month_start + relativedelta(months=1)) - timedelta(days=1)
MonthEnd(d) == PrevDay(AddMonths(MonthStart(d), 1))

\* start_date + relativedelta(months=total_months) raises ValueError when the
\* year it reaches is outside MinYear..MaxYear
RemainingMonthsRaises(start_date, total_months) ==
    ~DateInRange(AddMonths(start_date, total_months))

\* get_remaining_months without the floor of its last line
GetRemainingMonthsNoFloor(start_date, total_months, clock) ==
    LET end_date == AddMonths(start_date, total_months)
        months_passed == (clock.year - start_date.year) * 12
                         + (clock.month - start_date.month)
    IN  IF DateLE(end_date, clock) THEN 1
        ELSE total_months - months_passed

\* get_remaining_months counting the month of the reference date as remaining
GetRemainingMonthsInclusive(start_date, total_months, clock) ==
    LET end_date == AddMonths(start_date, total_months)
        months_passed == (clock.year - start_date.year) * 12
                         + (clock.month - start_date.month)
    IN  IF DateLE(end_date, clock) THEN 1
        ELSE Max(1, total_months - months_passed + 1)

\* get_remaining_months, with the two values it reads made explicit: clock is
\* what DateType.today() returns inside it.
GetRemainingMonths(start_date, total_months, clock) ==
    LET end_date == AddMonths(start_date, total_months)
        months_passed == (clock.year - start_date.year) * 12
                         + (clock.month - start_date.month)
    IN  IF DateLE(end_date, clock) THEN 1
        ELSE Max(1, total_months - months_passed)

\* monthly_target = round(remaining / remaining_months) if remaining_months > 0 else 0
MonthlyTarget(remaining, remaining_months) ==
    IF remaining_months > 0 THEN RoundHalfEven(remaining, remaining_months) ELSE 0

(***************************************************************************)
(* Rows and tables.                                                        *)
(***************************************************************************)
RECURSIVE SumSeq(_)
SumSeq(s) == IF s = <<>> THEN 0 ELSE Head(s) + SumSeq(Tail(s))

\* result.scalar() of a select by primary key: the row, or None
FindRow(table, id) ==
    LET hit == SelectSeq(table, LAMBDA r : r.id = id)
    IN  IF hit = <<>> THEN None ELSE Some(Head(hit))

\* db.delete(row); commit
DeleteRow(table, id) == SelectSeq(table, LAMBDA r : r.id # id)

\* The UPDATE a commit flushes for a loaded row changed to new: it sets only
\* the columns whose value differs from the loaded one, on the row as it is
\* in the table now.
FlushRow(row, loaded, new) ==
    [c \in DOMAIN row |-> IF new[c] # loaded[c] THEN new[c] ELSE row[c]]

\* the table after that UPDATE of the row with the id of loaded
FlushUpdate(table, loaded, new) ==
    [i \in 1..Len(table) |->
        IF table[i].id # loaded.id THEN table[i]
        ELSE FlushRow(table[i], loaded, new)]

\* the row put back into a table that holds its rows in the order of their ids
InsertRow(table, row) ==
    SelectSeq(table, LAMBDA r : r.id < row.id)
    \o <<row>> \o SelectSeq(table, LAMBDA r : r.id > row.id)

\* order_by(created_at.desc()): the rows from the one built last to the one
\* built first
RECURSIVE NewestFirst(_)
NewestFirst(rows) ==
    IF rows = <<>> THEN <<>>
    ELSE LET i == CHOOSE i \in 1..Len(rows) :
                      \A j \in 1..Len(rows) : rows[j].created_at <= rows[i].created_at
         IN  <<rows[i]>>
             \o NewestFirst(SubSeq(rows, 1, i - 1) \o SubSeq(rows, i + 1, Len(rows)))

\* Python's `a or b` on an optional number
PyOr(opt, dflt) == IF IsNone(opt) \/ opt[1] = 0 THEN dflt ELSE opt[1]

(***************************************************************************)
(* Debts.                                                                  *)
(***************************************************************************)
\* a new debt stored as cleared
NewDebtCleared(id, total_amount, remaining_opt, created_at) ==
    [id |-> id,
     total_amount |-> total_amount,
     remaining_amount |-> PyOr(remaining_opt, total_amount),
     is_cleared |-> TRUE,
     created_at |-> created_at]

\* Debt(...) as create_debt builds it; is_cleared takes the column default
\* and created_at the time the object is built (default_factory)
NewDebt(id, total_amount, remaining_opt, created_at) ==
    [id |-> id,
     total_amount |-> total_amount,
     remaining_amount |-> PyOr(remaining_opt, total_amount),
     is_cleared |-> FALSE,
     created_at |-> created_at]

\* pay_debt without the floor at zero
ApplyPaymentUnclamped(debt, amount) ==
    LET newRemaining == debt.remaining_amount - amount
    IN  [debt EXCEPT !.remaining_amount = newRemaining,
                     !.is_cleared = (newRemaining = 0)]

\* the two assignments of pay_debt
ApplyPayment(debt, amount) ==
    LET newRemaining == Max(0, debt.remaining_amount - amount)
    IN  [debt EXCEPT !.remaining_amount = newRemaining,
                     !.is_cleared = (newRemaining = 0)]

\* round(((total - remaining) / total) * 100, 1) if total > 0 else 0, in tenths
DebtProgress(d) ==
    IF d.total_amount > 0
    THEN RoundPercent(d.total_amount - d.remaining_amount, d.total_amount)
    ELSE 0

DebtOut(d) ==
    [id |-> d.id,
     total_amount |-> d.total_amount,
     remaining_amount |-> d.remaining_amount,
     is_cleared |-> d.is_cleared,
     progress_percent |-> DebtProgress(d)]

\* the DebtOut create_debt returns: progress_percent is the literal 0
CreatedDebtOut(d) == [DebtOut(d) EXCEPT !.progress_percent = 0]

\* [DebtOut(...) for d in debts]
DebtsOut(ds) == [i \in 1..Len(ds) |-> DebtOut(ds[i])]

(***************************************************************************)
(* The dashboard computation of get_dashboard, as a function of what the   *)
(* handler read: the goal row g, the debt rows ds, the budget rows bs, the *)
(* three transaction selections, the date tdy it took from the clock and   *)
(* the date clock2 that get_remaining_months took from the clock.          *)
(***************************************************************************)
IsExpense(t) == t.type = "expense"
IsIncome(t) == t.type = "income"

Amounts(rows) == [i \in 1..Len(rows) |-> rows[i].amount]

ExpenseSum(rows) == SumSeq(Amounts(SelectSeq(rows, IsExpense)))
IncomeSum(rows) == SumSeq(Amounts(SelectSeq(rows, IsIncome)))

\* Transaction.date == today, ordered by created_at descending
TodayRows(table, tdy) == NewestFirst(SelectSeq(table, LAMBDA t : t.date = tdy))

\* Transaction.date >= month_start and Transaction.date <= month_end
MonthRows(table, tdy) ==
    SelectSeq(table, LAMBDA t : DateLE(MonthStart(tdy), t.date)
                                /\ DateLE(t.date, MonthEnd(tdy)))

\* the keys of by_category in the order the loop inserts them
RECURSIVE CategoryOrder(_, _)
CategoryOrder(rows, seen) ==
    IF rows = <<>> THEN <<>>
    ELSE LET t == Head(rows)
         IN  IF IsExpense(t) /\ t.category \notin seen
             THEN <<t.category>> \o CategoryOrder(Tail(rows), seen \cup {t.category})
             ELSE CategoryOrder(Tail(rows), seen)

\* by_category as its items() in insertion order
ByCategory(month_tx) ==
    LET keys == CategoryOrder(month_tx, {})
    IN  [i \in 1..Len(keys) |->
            [category |-> keys[i],
             spent |-> ExpenseSum(SelectSeq(month_tx, LAMBDA t : t.category = keys[i]))]]

\* {b.category: b.monthly_limit for b in budgets_list}: a later row overwrites
BudgetsDict(bs) ==
    [c \in {bs[i].category : i \in 1..Len(bs)} |->
        LET last == CHOOSE i \in 1..Len(bs) :
                        /\ bs[i].category = c
                        /\ \A j \in (i + 1)..Len(bs) : bs[j].category # c
        IN  bs[last].monthly_limit]

\* budgets.get(cat, 0)
BudgetLimit(dict, cat) == IF cat \in DOMAIN dict THEN dict[cat] ELSE 0

\* the daily-budget branch with its second test made a separate `if` and
\* its comparison made inclusive
DailyAlertsLoose(today_remaining, daily_budget_limit) ==
    (IF today_remaining < 0
     THEN <<[type |-> "error", category |-> "daily_budget",
             amount |-> Abs(today_remaining)]>>
     ELSE <<>>)
    \o (IF 5 * today_remaining <= daily_budget_limit
        THEN <<[type |-> "warning", category |-> "daily_budget",
                amount |-> today_remaining]>>
        ELSE <<>>)

\* the daily-budget branch of the alert detection
DailyAlerts(today_remaining, daily_budget_limit) ==
    IF today_remaining < 0
    THEN <<[type |-> "error", category |-> "daily_budget",
            amount |-> Abs(today_remaining)]>>
    ELSE IF 5 * today_remaining < daily_budget_limit
    THEN <<[type |-> "warning", category |-> "daily_budget",
            amount |-> today_remaining]>>
    ELSE <<>>

\* the category branch with its two tests made separate `if`s
CategoryAlertBoth(item, dict) ==
    LET limit == BudgetLimit(dict, item.category)
    IN  (IF limit > 0 /\ item.spent > limit
         THEN <<[type |-> "error", category |-> "category_budget",
                 label |-> item.category,
                 amount |-> item.spent - limit]>>
         ELSE <<>>)
        \o (IF limit > 0 /\ 5 * item.spent > 4 * limit
            THEN <<[type |-> "warning", category |-> "category_budget",
                    label |-> item.category,
                    amount |-> (item.spent * 100) \div limit]>>
            ELSE <<>>)

\* the alert, if any, of one by_category item; label is the category the
\* message names, amount the number it prints (the overage, or the integer
\* percent int(spent / limit * 100))
CategoryAlert(item, dict) ==
    LET limit == BudgetLimit(dict, item.category)
    IN  IF limit > 0 /\ item.spent > limit
        THEN <<[type |-> "error", category |-> "category_budget",
                label |-> item.category,
                amount |-> item.spent - limit]>>
        ELSE IF limit > 0 /\ 5 * item.spent > 4 * limit
        THEN <<[type |-> "warning", category |-> "category_budget",
                label |-> item.category,
                amount |-> (item.spent * 100) \div limit]>>
        ELSE <<>>

RECURSIVE CategoryAlerts(_, _)
CategoryAlerts(items, dict) ==
    IF items = <<>> THEN <<>>
    ELSE CategoryAlert(Head(items), dict) \o CategoryAlerts(Tail(items), dict)

\* the yearly percentage cut off at 100
YearlyProgressCapped(current_progress, total_target) ==
    IF total_target > 0
    THEN Min(1000, RoundPercent(current_progress, total_target))
    ELSE 0

\* round((current_progress / total_target) * 100, 1) if total_target > 0 else 0,
\* in tenths
YearlyProgress(current_progress, total_target) ==
    IF total_target > 0
    THEN RoundPercent(current_progress, total_target)
    ELSE 0

\* current_savings without the paid debt taken off
CurrentSavingsIgnoringDebt(g, all_tx, paid_debt) ==
    g.initial_savings + IncomeSum(all_tx) - ExpenseSum(all_tx)

\* current_savings taken from the stored goal field
CurrentSavingsStored(g, all_tx, paid_debt) == g.current_savings

\* current_savings = initial_savings + total_income - total_expense - paid_debt
CurrentSavings(g, all_tx, paid_debt) ==
    g.initial_savings + IncomeSum(all_tx) - ExpenseSum(all_tx) - paid_debt

Dashboard(g, ds, bs, today_tx, month_tx, all_tx, tdy, clock2) ==
    LET today_expense == ExpenseSum(today_tx)
        today_remaining == g.daily_budget_limit - today_expense
        monthly_income == IncomeSum(month_tx)
        monthly_expense == ExpenseSum(month_tx)
        by_category == ByCategory(month_tx)
        open == SelectSeq(ds, LAMBDA d : ~d.is_cleared)
        current_total_debt == SumSeq([i \in 1..Len(open) |-> open[i].remaining_amount])
        paid_debt == g.initial_total_debt - current_total_debt
        current_savings == CurrentSavings(g, all_tx, paid_debt)
        savings_growth == current_savings - g.initial_savings
        total_target == g.savings_target + g.initial_total_debt
        current_progress == current_savings + paid_debt
        remaining == Max(0, total_target - current_progress)
        progress_percent == YearlyProgress(current_progress, total_target)
        remaining_months == GetRemainingMonths(g.start_date, g.total_months, clock2)
        dict == BudgetsDict(bs)
    IN  [yearly_goal |->
            [total_target |-> total_target,
             current_progress |-> current_progress,
             progress_percent |-> progress_percent,
             remaining |-> remaining,
             paid_debt |-> paid_debt,
             savings_growth |-> savings_growth,
             remaining_months |-> remaining_months,
             monthly_target |-> MonthlyTarget(remaining, remaining_months)],
         today |->
            [date |-> tdy,
             expense |-> today_expense,
             remaining_budget |-> today_remaining,
             daily_limit |-> g.daily_budget_limit,
             transactions |-> today_tx],
         monthly |->
            [year_month |-> <<tdy.year, tdy.month>>,
             income |-> monthly_income,
             expense |-> monthly_expense,
             balance |-> monthly_income - monthly_expense,
             by_category |-> by_category],
         savings |->
            [current |-> current_savings,
             target |-> g.savings_target,
             initial |-> g.initial_savings,
             growth |-> savings_growth,
             progress_percent |-> IF g.savings_target > 0
                                  THEN RoundPercent(current_savings, g.savings_target)
                                  ELSE 0,
             net_worth |-> current_savings - current_total_debt,
             net_worth_target |-> g.savings_target],
         debts |-> DebtsOut(ds),
         total_debt |-> current_total_debt,
         budgets |-> dict,
         budget_usage |-> by_category,
         alerts |-> DailyAlerts(today_remaining, g.daily_budget_limit)
                    \o CategoryAlerts(by_category, dict),
         daily_budget_limit |-> g.daily_budget_limit]

(***************************************************************************)
(* Request inputs and the clock.                                           *)
(***************************************************************************)
\* amounts a request may carry: the schemas take any float, negative ones too
AmountValues == -1..MaxAmount

\* DebtCreate.remaining_amount: float | None
OptAmountValues == {None} \cup {Some(v) : v \in -1..(MaxAmount + 1)}

\* ids a request may name: the rows that may exist and one that never does
DebtIds == 1..(MaxDebts + 1)

\* the date the clock shows first, and the last one it reaches
FirstDay == Date(2025, 12, 31)

RECURSIVE DaysAfter(_, _)
DaysAfter(d, n) == IF n = 0 THEN d ELSE DaysAfter(NextDay(d), n - 1)

LastDay == DaysAfter(FirstDay, MaxTicks)

\* the goal row that POST /goal stores for its payload
GoalRow(payload) == payload

DefaultGoal ==
    [start_date |-> Date(2025, 11, 28), total_months |-> 12,
     savings_target |-> 4, initial_savings |-> 1, current_savings |-> 1,
     initial_total_debt |-> 2, daily_budget_limit |-> 5]

\* the clients that may have a request in flight, and the first of them
Requests == {1, 2}
Alone == {1}

\* a client with no request in flight
Idle == [pc |-> "idle", op |-> "none"]

\* the request record r once its handler has its answer
Answer(r, status) == [r EXCEPT !.pc = "done"] @@ [status |-> status]
AnswerWith(r, status, body) == Answer(r, status) @@ [body |-> body]

(***************************************************************************)
(* The handlers.  Each is an async function that runs in a session of its  *)
(* own and gives way to the other requests at every await.  A step of a    *)
(* handler is one statement it awaits, taking effect on what is committed  *)
(* at that moment, together with the code that follows it up to the next   *)
(* await; code that reads the clock is a step of its own.  Nothing locks a *)
(* row (no with_for_update) and no table has a version column.             *)
(***************************************************************************)
\* the response has reached the client, who may send the next request
Return(p) ==
    /\ req[p].pc = "done"
    /\ req' = [req EXCEPT ![p] = Idle]
    /\ UNCHANGED <<goal, debts, nextDebtId, txs, nextTxId, budgets, today>>

\* the requests of operation op that have built their row and not yet
\* committed it
Building(op) == {q \in Requests : req[q].op = op /\ req[q].pc = "built"}

\* datetime.utcnow() as the default of created_at, for a row of the table
\* whose next id is nextId.  Only the order of these times is observed (the
\* two order_by clauses), so a time is the count of the rows of the table
\* built up to it: those inserted so far and those built and not yet
\* inserted.
UtcNow(op, nextId) == nextId + Cardinality(Building(op))

\* lines 353-361: the Debt object, whose created_at is fixed here
CreateDebtBuild(p, total_amount, remaining_opt) ==
    /\ req[p].pc = "idle"
    /\ nextDebtId + Cardinality(Building("create_debt")) <= MaxDebts
    /\ req' = [req EXCEPT ![p] =
                  [op |-> "create_debt", pc |-> "built",
                   total_amount |-> total_amount,
                   remaining_amount |-> remaining_opt,
                   built |-> NewDebt(0, total_amount, remaining_opt,
                                     UtcNow("create_debt", nextDebtId))]]
    /\ UNCHANGED <<goal, debts, nextDebtId, txs, nextTxId, budgets, today>>

\* line 362: the INSERT of the commit, which assigns the id
CreateDebtCommit(p) ==
    /\ req[p].pc = "built"
    /\ req[p].op = "create_debt"
    /\ debts' = Append(debts, [req[p].built EXCEPT !.id = nextDebtId])
    /\ nextDebtId' = nextDebtId + 1
    /\ req' = [req EXCEPT ![p] = [@ EXCEPT !.pc = "committed"] @@ [row_id |-> nextDebtId]]
    /\ UNCHANGED <<goal, txs, nextTxId, budgets, today>>

\* lines 363-374: the refresh, which fails when the row is gone, and the
\* DebtOut
CreateDebtRefresh(p) ==
    /\ req[p].pc = "committed"
    /\ req[p].op = "create_debt"
    /\ LET row == FindRow(debts, req[p].row_id)
       IN  req' = [req EXCEPT ![p] =
                      IF IsNone(row) THEN Answer(@, 500)
                      ELSE AnswerWith(@, 200, CreatedDebtOut(row[1]))]
    /\ UNCHANGED <<goal, debts, nextDebtId, txs, nextTxId, budgets, today>>

\* POST /debts, with a total_amount of totals and a remaining_amount of
\* remainings
CreateDebt(p, totals, remainings) ==
    \/ \E t \in totals, r \in remainings : CreateDebtBuild(p, t, r)
    \/ CreateDebtCommit(p)
    \/ CreateDebtRefresh(p)

\* lines 385-394: the select, the 404, and the assignments on the loaded
\* object
PayLoad(p, debt_id, amount) ==
    /\ req[p].pc = "idle"
    /\ LET found == FindRow(debts, debt_id)
       IN  /\ ~IsNone(found) =>
                 ApplyPayment(found[1], amount).remaining_amount <= MaxAmount + 1
           /\ req' = [req EXCEPT ![p] =
                         IF IsNone(found)
                         THEN [op |-> "pay_debt", pc |-> "done", status |-> 404,
                               debt_id |-> debt_id, amount |-> amount]
                         ELSE [op |-> "pay_debt", pc |-> "loaded",
                               debt_id |-> debt_id, amount |-> amount,
                               loaded |-> found[1]]]
    /\ UNCHANGED <<goal, debts, nextDebtId, txs, nextTxId, budgets, today>>

\* the commit of pay_debt writing the payment to every debt row instead of
\* the one loaded
PayCommitAll(p) ==
    /\ req[p].pc = "loaded"
    /\ req[p].op = "pay_debt"
    /\ debts' = [i \in 1..Len(debts) |-> ApplyPayment(debts[i], req[p].amount)]
    /\ req' = [req EXCEPT ![p].pc = "committed"]
    /\ UNCHANGED <<goal, nextDebtId, txs, nextTxId, budgets, today>>

\* line 396: the UPDATE of the commit.  updated_at is always assigned, so an
\* UPDATE is always sent; it fails when the row is gone.
PayCommit(p) ==
    /\ req[p].pc = "loaded"
    /\ req[p].op = "pay_debt"
    /\ IF IsNone(FindRow(debts, req[p].debt_id))
       THEN /\ req' = [req EXCEPT ![p] = Answer(@, 500)]
            /\ UNCHANGED debts
       ELSE /\ debts' = FlushUpdate(debts, req[p].loaded,
                                    ApplyPayment(req[p].loaded, req[p].amount))
            /\ req' = [req EXCEPT ![p].pc = "committed"]
    /\ UNCHANGED <<goal, nextDebtId, txs, nextTxId, budgets, today>>

\* lines 397-408: the refresh and the DebtOut
PayRefresh(p) ==
    /\ req[p].pc = "committed"
    /\ req[p].op = "pay_debt"
    /\ LET row == FindRow(debts, req[p].debt_id)
       IN  req' = [req EXCEPT ![p] =
                      IF IsNone(row) THEN Answer(@, 500)
                      ELSE AnswerWith(@, 200, DebtOut(row[1]))]
    /\ UNCHANGED <<goal, debts, nextDebtId, txs, nextTxId, budgets, today>>

\* PUT /debts/{debt_id}/pay, for a debt_id of ids and an amount of amounts
PayDebt(p, ids, amounts) ==
    \/ \E d \in ids, a \in amounts : PayLoad(p, d, a)
    \/ PayCommit(p)
    \/ PayRefresh(p)

\* lines 418-423: the select and the 404
DeleteDebtLoad(p, debt_id) ==
    /\ req[p].pc = "idle"
    /\ LET found == FindRow(debts, debt_id)
       IN  req' = [req EXCEPT ![p] =
                      IF IsNone(found)
                      THEN [op |-> "delete_debt", pc |-> "done", status |-> 404,
                            debt_id |-> debt_id]
                      ELSE [op |-> "delete_debt", pc |-> "loaded",
                            debt_id |-> debt_id, loaded |-> found[1]]]
    /\ UNCHANGED <<goal, debts, nextDebtId, txs, nextTxId, budgets, today>>

\* lines 425-427: the DELETE of the commit; a DELETE that matches no row is
\* not an error
DeleteDebtCommit(p) ==
    /\ req[p].pc = "loaded"
    /\ req[p].op = "delete_debt"
    /\ debts' = DeleteRow(debts, req[p].debt_id)
    /\ req' = [req EXCEPT ![p] = Answer(@, 204)]
    /\ UNCHANGED <<goal, nextDebtId, txs, nextTxId, budgets, today>>

\* DELETE /debts/{debt_id}, for a debt_id of ids
DeleteDebt(p, ids) ==
    \/ \E d \in ids : DeleteDebtLoad(p, d)
    \/ DeleteDebtCommit(p)

\* GET /debts: one select, ordered by created_at descending
ListDebts(p) ==
    /\ req[p].pc = "idle"
    /\ req' = [req EXCEPT ![p] =
                  [op |-> "list_debts", pc |-> "done", status |-> 200,
                   body |-> DebtsOut(NewestFirst(debts))]]
    /\ UNCHANGED <<goal, debts, nextDebtId, txs, nextTxId, budgets, today>>

(***************************************************************************)
(* get_dashboard: six selects, each awaited, and two readings of the       *)
(* clock, the one of line 545 between the third and the fourth select and  *)
(* the one of get_remaining_months (line 182) after the last.              *)
(***************************************************************************)
\* lines 522-529: the goal, or the 404
DashGoal(p) ==
    /\ req[p].pc = "idle"
    /\ req' = [req EXCEPT ![p] =
                  IF goal = <<>>
                  THEN [op |-> "get_dashboard", pc |-> "done", status |-> 404]
                  ELSE [op |-> "get_dashboard", pc |-> "debts", g |-> goal[1]]]
    /\ UNCHANGED <<goal, debts, nextDebtId, txs, nextTxId, budgets, today>>

\* lines 531-535
DashDebts(p) ==
    /\ req[p].pc = "debts"
    /\ req' = [req EXCEPT ![p] = [@ EXCEPT !.pc = "budgets"] @@ [ds |-> debts]]
    /\ UNCHANGED <<goal, debts, nextDebtId, txs, nextTxId, budgets, today>>

\* lines 537-542
DashBudgets(p) ==
    /\ req[p].pc = "budgets"
    /\ req' = [req EXCEPT ![p] = [@ EXCEPT !.pc = "clock"] @@ [bs |-> budgets]]
    /\ UNCHANGED <<goal, debts, nextDebtId, txs, nextTxId, budgets, today>>

\* line 545: today = DateType.today()
DashClock(p) ==
    /\ req[p].pc = "clock"
    /\ req' = [req EXCEPT ![p] = [@ EXCEPT !.pc = "today"] @@ [tdy |-> today]]
    /\ UNCHANGED <<goal, debts, nextDebtId, txs, nextTxId, budgets, today>>

\* lines 546-552: the rows of that day
DashToday(p) ==
    /\ req[p].pc = "today"
    /\ req' = [req EXCEPT ![p] =
                  [@ EXCEPT !.pc = "month"]
                  @@ [today_tx |-> TodayRows(txs, req[p].tdy)]]
    /\ UNCHANGED <<goal, debts, nextDebtId, txs, nextTxId, budgets, today>>

\* lines 554-564: the month window and its rows
DashMonth(p) ==
    /\ req[p].pc = "month"
    /\ req' = [req EXCEPT ![p] =
                  [@ EXCEPT !.pc = "all"]
                  @@ [month_start |-> MonthStart(req[p].tdy),
                      month_end |-> MonthEnd(req[p].tdy),
                      month_tx |-> MonthRows(txs, req[p].tdy)]]
    /\ UNCHANGED <<goal, debts, nextDebtId, txs, nextTxId, budgets, today>>

\* lines 566-570: every row
DashAll(p) ==
    /\ req[p].pc = "all"
    /\ req' = [req EXCEPT ![p] = [@ EXCEPT !.pc = "compute"] @@ [all_tx |-> txs]]
    /\ UNCHANGED <<goal, debts, nextDebtId, txs, nextTxId, budgets, today>>

\* lines 572-728: the computation; get_remaining_months reads the clock
\* again (clock2) and raises when the plan end is no date
DashCompute(p) ==
    /\ req[p].pc = "compute"
    /\ LET r == req[p]
       IN  req' = [req EXCEPT ![p] =
                      IF RemainingMonthsRaises(r.g.start_date, r.g.total_months)
                      THEN Answer(@, 500) @@ [clock2 |-> today]
                      ELSE AnswerWith(@, 200,
                                      Dashboard(r.g, r.ds, r.bs, r.today_tx,
                                                r.month_tx, r.all_tx, r.tdy, today))
                           @@ [clock2 |-> today]]
    /\ UNCHANGED <<goal, debts, nextDebtId, txs, nextTxId, budgets, today>>

\* GET /dashboard
GetDashboard(p) ==
    \/ DashGoal(p)
    \/ DashDebts(p)
    \/ DashBudgets(p)
    \/ DashClock(p)
    \/ DashToday(p)
    \/ DashMonth(p)
    \/ DashAll(p)
    \/ DashCompute(p)

\* midnight passes
Tick ==
    /\ DateLT(today, LastDay)
    /\ today' = NextDay(today)
    /\ UNCHANGED <<goal, debts, nextDebtId, txs, nextTxId, budgets, req>>

(***************************************************************************)
(* The transaction and goal handlers.                                      *)
(***************************************************************************)
TxIds == 1..(MaxTxs + 1)

\* TransactionCreate payloads: positive amounts of both kinds, dated today
\* (date omitted) or the first day of the model
TxPayloads ==
    [amount : 1..MaxAmount, type : {"income", "expense"}, category : {"food"},
     date : {None, Some(FirstDay)}]

\* daily_budget_limit values a goal request carries
DailyLimitValues == {0, 3, 5}

\* UserGoalCreate payloads
GoalPayloads == {[DefaultGoal EXCEPT !.daily_budget_limit = l] : l \in DailyLimitValues}

\* UserGoalUpdate payloads
GoalUpdates ==
    [current_savings : {None, Some(0)},
     daily_budget_limit : {None} \cup {Some(l) : l \in DailyLimitValues}]

\* Transaction(...) as create_transaction builds it
NewTransaction(id, payload, clock, created_at) ==
    [id |-> id,
     amount |-> payload.amount,
     type |-> payload.type,
     category |-> payload.category,
     date |-> IF IsNone(payload.date) THEN clock ELSE payload.date[1],
     created_at |-> created_at]

\* lines 205-215: the Transaction object; line 212 reads the clock, and
\* created_at is fixed here
TxBuild(p, payload) ==
    /\ req[p].pc = "idle"
    /\ nextTxId + Cardinality(Building("create_transaction")) <= MaxTxs
    /\ req' = [req EXCEPT ![p] =
                  [op |-> "create_transaction", pc |-> "built",
                   payload |-> payload,
                   built |-> NewTransaction(0, payload, today,
                                            UtcNow("create_transaction", nextTxId))]]
    /\ UNCHANGED <<goal, debts, nextDebtId, txs, nextTxId, budgets, today>>

\* line 216: the INSERT of the commit, which assigns the id
TxCommit(p) ==
    /\ req[p].pc = "built"
    /\ req[p].op = "create_transaction"
    /\ txs' = Append(txs, [req[p].built EXCEPT !.id = nextTxId])
    /\ nextTxId' = nextTxId + 1
    /\ req' = [req EXCEPT ![p] = [@ EXCEPT !.pc = "committed"] @@ [row_id |-> nextTxId]]
    /\ UNCHANGED <<goal, debts, nextDebtId, budgets, today>>

\* lines 217-218: the refresh, which fails when the row is gone
TxRefresh(p) ==
    /\ req[p].pc = "committed"
    /\ req[p].op = "create_transaction"
    /\ LET row == FindRow(txs, req[p].row_id)
       IN  req' = [req EXCEPT ![p] =
                      IF IsNone(row) THEN Answer(@, 500)
                      ELSE AnswerWith(@, 200, row[1])]
    /\ UNCHANGED <<goal, debts, nextDebtId, txs, nextTxId, budgets, today>>

\* POST /transactions, with a payload of payloads
CreateTransaction(p, payloads) ==
    \/ \E payload \in payloads : TxBuild(p, payload)
    \/ TxCommit(p)
    \/ TxRefresh(p)

\* lines 258-266: the select and the 404
DeleteTxLoad(p, tx_id) ==
    /\ req[p].pc = "idle"
    /\ req' = [req EXCEPT ![p] =
                  IF IsNone(FindRow(txs, tx_id))
                  THEN [op |-> "delete_transaction", pc |-> "done", status |-> 404,
                        tx_id |-> tx_id]
                  ELSE [op |-> "delete_transaction", pc |-> "loaded",
                        tx_id |-> tx_id]]
    /\ UNCHANGED <<goal, debts, nextDebtId, txs, nextTxId, budgets, today>>

\* lines 268-270: the DELETE of the commit
DeleteTxCommit(p) ==
    /\ req[p].pc = "loaded"
    /\ req[p].op = "delete_transaction"
    /\ txs' = DeleteRow(txs, req[p].tx_id)
    /\ req' = [req EXCEPT ![p] = Answer(@, 204)]
    /\ UNCHANGED <<goal, debts, nextDebtId, nextTxId, budgets, today>>

\* DELETE /transactions/{tx_id}, for a tx_id of ids
DeleteTransaction(p, ids) ==
    \/ \E t \in ids : DeleteTxLoad(p, t)
    \/ DeleteTxCommit(p)

\* lines 456-459: the select of the goal row
CreateGoalLoad(p, payload) ==
    /\ req[p].pc = "idle"
    /\ req' = [req EXCEPT ![p] =
                  [op |-> "create_user_goal", pc |-> "loaded",
                   payload |-> payload, found |-> goal]]
    /\ UNCHANGED <<goal, debts, nextDebtId, txs, nextTxId, budgets, today>>

\* lines 461-480: every field assigned on the loaded row, or the new row,
\* and the commit.  user_goals.user_id is unique: the INSERT fails when a
\* row has appeared since the select.
CreateGoalCommit(p) ==
    /\ req[p].pc = "loaded"
    /\ req[p].op = "create_user_goal"
    /\ IF req[p].found = <<>>
       THEN IF goal # <<>>
            THEN /\ req' = [req EXCEPT ![p] = Answer(@, 500)]
                 /\ UNCHANGED goal
            ELSE /\ goal' = <<GoalRow(req[p].payload)>>
                 /\ req' = [req EXCEPT ![p].pc = "committed"]
       ELSE /\ goal' = <<FlushRow(goal[1], req[p].found[1], GoalRow(req[p].payload))>>
            /\ req' = [req EXCEPT ![p].pc = "committed"]
    /\ UNCHANGED <<debts, nextDebtId, txs, nextTxId, budgets, today>>

\* lines 481-482: the refresh and the UserGoalOut
CreateGoalRefresh(p) ==
    /\ req[p].pc = "committed"
    /\ req[p].op = "create_user_goal"
    /\ req' = [req EXCEPT ![p] = AnswerWith(@, 200, goal[1])]
    /\ UNCHANGED <<goal, debts, nextDebtId, txs, nextTxId, budgets, today>>

\* POST /goal, with a payload of payloads
CreateUserGoal(p, payloads) ==
    \/ \E payload \in payloads : CreateGoalLoad(p, payload)
    \/ CreateGoalCommit(p)
    \/ CreateGoalRefresh(p)

\* the assignments of update_user_goal: a field is set when the payload has it
UpdatedGoal(g, payload) ==
    [g EXCEPT !.current_savings =
                  IF IsNone(payload.current_savings) THEN @ ELSE payload.current_savings[1],
              !.daily_budget_limit =
                  IF IsNone(payload.daily_budget_limit) THEN @ ELSE payload.daily_budget_limit[1]]

\* lines 492-498: the select and the 404
UpdateGoalLoad(p, payload) ==
    /\ req[p].pc = "idle"
    /\ req' = [req EXCEPT ![p] =
                  IF goal = <<>>
                  THEN [op |-> "update_user_goal", pc |-> "done", status |-> 404,
                        payload |-> payload]
                  ELSE [op |-> "update_user_goal", pc |-> "loaded",
                        payload |-> payload, found |-> goal]]
    /\ UNCHANGED <<goal, debts, nextDebtId, txs, nextTxId, budgets, today>>

\* lines 500-508: the assignments and the commit
UpdateGoalCommit(p) ==
    /\ req[p].pc = "loaded"
    /\ req[p].op = "update_user_goal"
    /\ goal' = <<FlushRow(goal[1], req[p].found[1],
                          UpdatedGoal(req[p].found[1], req[p].payload))>>
    /\ req' = [req EXCEPT ![p].pc = "committed"]
    /\ UNCHANGED <<debts, nextDebtId, txs, nextTxId, budgets, today>>

\* lines 509-510: the refresh and the UserGoalOut
UpdateGoalRefresh(p) ==
    /\ req[p].pc = "committed"
    /\ req[p].op = "update_user_goal"
    /\ req' = [req EXCEPT ![p] = AnswerWith(@, 200, goal[1])]
    /\ UNCHANGED <<goal, debts, nextDebtId, txs, nextTxId, budgets, today>>

\* PUT /goal, with a payload of payloads
UpdateUserGoal(p, payloads) ==
    \/ \E payload \in payloads : UpdateGoalLoad(p, payload)
    \/ UpdateGoalCommit(p)
    \/ UpdateGoalRefresh(p)

(***************************************************************************)
(* set_budget.  Budget has no unique constraint on (user_id, category).    *)
(***************************************************************************)
Categories == {"food", "traffic"}

\* BudgetSet payloads, with the monthly_limit values a request carries
BudgetPayloads == [category : Categories, monthly_limit : {-1, 0, 1, MaxAmount}]

\* result.scalar() of the select by category: the first row, or None
FindBudget(table, category) ==
    LET hit == SelectSeq(table, LAMBDA b : b.category = category)
    IN  IF hit = <<>> THEN None ELSE Some(Head(hit))

\* Budget(...) as set_budget builds it; budget rows are never deleted, so
\* the next id is the number of rows plus one
NewBudget(table, payload) ==
    [id |-> Len(table) + 1,
     category |-> payload.category,
     monthly_limit |-> payload.monthly_limit]

BudgetOut(b) == [category |-> b.category, monthly_limit |-> b.monthly_limit]

\* lines 294-300: the select by category
BudgetLoad(p, payload) ==
    /\ req[p].pc = "idle"
    /\ req' = [req EXCEPT ![p] =
                  [op |-> "set_budget", pc |-> "loaded",
                   category |-> payload.category,
                   monthly_limit |-> payload.monthly_limit,
                   found |-> FindBudget(budgets, payload.category)]]
    /\ UNCHANGED <<goal, debts, nextDebtId, txs, nextTxId, budgets, today>>

\* lines 302-313: the assignment on the loaded row, or the new row, and the
\* commit
BudgetCommit(p) ==
    /\ req[p].pc = "loaded"
    /\ req[p].op = "set_budget"
    /\ IF IsNone(req[p].found)
       THEN LET row == NewBudget(budgets, req[p])
            IN  /\ budgets' = Append(budgets, row)
                /\ req' = [req EXCEPT ![p] =
                              [@ EXCEPT !.pc = "committed"] @@ [row_id |-> row.id]]
       ELSE LET loaded == req[p].found[1]
            IN  /\ budgets' = FlushUpdate(budgets, loaded,
                                   [loaded EXCEPT !.monthly_limit = req[p].monthly_limit])
                /\ req' = [req EXCEPT ![p] =
                              [@ EXCEPT !.pc = "committed"] @@ [row_id |-> loaded.id]]
    /\ UNCHANGED <<goal, debts, nextDebtId, txs, nextTxId, today>>

\* lines 314-315: the refresh and the BudgetOut
BudgetRefresh(p) ==
    /\ req[p].pc = "committed"
    /\ req[p].op = "set_budget"
    /\ req' = [req EXCEPT ![p] =
                  AnswerWith(@, 200, BudgetOut(FindRow(budgets, req[p].row_id)[1]))]
    /\ UNCHANGED <<goal, debts, nextDebtId, txs, nextTxId, budgets, today>>

\* POST /budgets, with a payload of payloads
SetBudget(p, payloads) ==
    \/ \E payload \in payloads : BudgetLoad(p, payload)
    \/ BudgetCommit(p)
    \/ BudgetRefresh(p)

(***************************************************************************)
(* initialize_data.                                                        *)
(***************************************************************************)
\* whether the module binds the name `date`: line 9 imports the class as
\* DateType only, and nothing else defines the name
DateNameBound == FALSE

\* the goal of lines 750-760
InitialGoal ==
    [start_date |-> Date(2025, 11, 28), total_months |-> 12,
     savings_target |-> 50000, initial_savings |-> 11150,
     current_savings |-> 11150, initial_total_debt |-> 21800,
     daily_budget_limit |-> 150]

\* the total_amount of the three debts of lines 764-768
InitialDebts == <<6000, 15000, 800>>

\* the default budgets of lines 772-776
InitialBudgets ==
    <<[category |-> "food", monthly_limit |-> 2000],
      [category |-> "traffic", monthly_limit |-> 500],
      [category |-> "shopping", monthly_limit |-> 800],
      [category |-> "entertainment", monthly_limit |-> 500],
      [category |-> "love", monthly_limit |-> 1000],
      [category |-> "family", monthly_limit |-> 600],
      [category |-> "health", monthly_limit |-> 300],
      [category |-> "other", monthly_limit |-> 300]>>

\* POST /init.  Its one select is answered; with a goal present the handler
\* raises the 400.  Without one it goes on to build the goal, and evaluating
\* date(2025, 11, 28) raises NameError when the name is unbound: the request
\* ends in a 500 before anything is added to the session and before the
\* commit of line 782 is reached.
InitializeData(p) ==
    /\ req[p].pc = "idle"
    /\ IF goal # <<>>
       THEN /\ req' = [req EXCEPT ![p] =
                          [op |-> "initialize_data", pc |-> "done", status |-> 400]]
            /\ UNCHANGED <<goal, debts, nextDebtId, budgets>>
       ELSE IF ~DateNameBound
       THEN /\ req' = [req EXCEPT ![p] =
                          [op |-> "initialize_data", pc |-> "done", status |-> 500]]
            /\ UNCHANGED <<goal, debts, nextDebtId, budgets>>
       ELSE /\ goal' = <<GoalRow(InitialGoal)>>
            /\ debts' = debts \o
                  [i \in 1..Len(InitialDebts) |->
                      [id |-> nextDebtId + i - 1,
                       total_amount |-> InitialDebts[i],
                       remaining_amount |-> InitialDebts[i],
                       is_cleared |-> FALSE,
                       created_at |-> UtcNow("create_debt", nextDebtId) + i - 1]]
            /\ nextDebtId' = nextDebtId + Len(InitialDebts)
            /\ budgets' = budgets \o
                  [i \in 1..Len(InitialBudgets) |->
                      [id |-> Len(budgets) + i,
                       category |-> InitialBudgets[i].category,
                       monthly_limit |-> InitialBudgets[i].monthly_limit]]
            /\ req' = [req EXCEPT ![p] =
                          [op |-> "initialize_data", pc |-> "done", status |-> 201]]
    /\ UNCHANGED <<txs, nextTxId, today>>

(***************************************************************************)
(* Spec: the debt ledger.  A goal is configured, the date is fixed, and    *)
(* one client calls the debt handlers and the dashboard in any order, each *)
(* call answered before the next is made.                                  *)
(***************************************************************************)
Init ==
    /\ goal = <<GoalRow(DefaultGoal)>>
    /\ debts = <<>>
    /\ nextDebtId = 1
    /\ txs = <<>>
    /\ nextTxId = 1
    /\ budgets = <<>>
    /\ today = LastDay
    /\ req = [p \in Requests |-> Idle]

Next ==
    \/ \E p \in Alone : CreateDebt(p, AmountValues, OptAmountValues)
    \/ \E p \in Alone : PayDebt(p, DebtIds, AmountValues)
    \/ \E p \in Alone : DeleteDebt(p, DebtIds)
    \/ \E p \in Alone : ListDebts(p)
    \/ \E p \in Alone : GetDashboard(p)
    \/ \E p \in Alone : Return(p)

Spec == Init /\ [][Next]_vars

(***************************************************************************)
(* SpecList: two clients create debts, their requests in flight together,  *)
(* and the first also pays them, lists them and reads the dashboard.       *)
(***************************************************************************)
NextList ==
    \/ \E p \in Requests : CreateDebt(p, {1, MaxAmount}, {None})
    \/ \E p \in Alone : PayDebt(p, DebtIds, {-1, MaxAmount})
    \/ \E p \in Alone : ListDebts(p)
    \/ \E p \in Alone : GetDashboard(p)
    \/ \E p \in Requests : Return(p)

SpecList == Init /\ [][NextList]_vars

(***************************************************************************)
(* SpecPay: two clients, each with one pay_debt request, in flight         *)
(* together.                                                               *)
(***************************************************************************)
\* payments that are valid by the contract
ValidAmounts == 0..MaxAmount

\* one debt, as create_debt(total_amount = r) stores it, and no request yet
InitPay ==
    /\ goal = <<GoalRow(DefaultGoal)>>
    /\ \E r \in 1..MaxAmount : debts = <<NewDebt(1, r, None, 1)>>
    /\ nextDebtId = 2
    /\ txs = <<>>
    /\ nextTxId = 1
    /\ budgets = <<>>
    /\ today = LastDay
    /\ req = [p \in Requests |-> Idle]

NextPay ==
    \E p \in Requests : PayDebt(p, DebtIds, ValidAmounts)

SpecPay == InitPay /\ [][NextPay]_vars

(***************************************************************************)
(* SpecDash: the dashboard over a ledger that create_transaction,          *)
(* delete_transaction, create_user_goal and update_user_goal change, with  *)
(* midnight passing at any moment.  One debt exists throughout.            *)
(***************************************************************************)
InitDash ==
    /\ goal = <<>>
    /\ debts = <<NewDebt(1, MaxAmount, None, 1)>>
    /\ nextDebtId = 2
    /\ txs = <<>>
    /\ nextTxId = 1
    /\ budgets = <<>>
    /\ today = FirstDay
    /\ req = [p \in Requests |-> Idle]

NextDash ==
    \/ \E p \in Alone : CreateTransaction(p, TxPayloads)
    \/ \E p \in Alone : DeleteTransaction(p, TxIds)
    \/ \E p \in Alone : CreateUserGoal(p, GoalPayloads)
    \/ \E p \in Alone : UpdateUserGoal(p, GoalUpdates)
    \/ \E p \in Alone : GetDashboard(p)
    \/ \E p \in Alone : Return(p)
    \/ Tick

SpecDash == InitDash /\ [][NextDash]_vars

(***************************************************************************)
(* SpecMonths: get_remaining_months and the monthly target over goals with *)
(* any start date and plan length and over every reference date of three  *)
(* years.                                                                  *)
(***************************************************************************)
\* start dates: the one initialize_data uses, a 31st and a leap day
StartDates == {Date(2025, 11, 28), Date(2025, 1, 31), Date(2024, 2, 29)}

\* UserGoalCreate.total_months is an unconstrained int
MonthValues == -1..MaxMonths

\* every day of 2024, 2025 and 2026
ClockDates ==
    {Date(t[1], t[2], t[3]) :
        t \in {u \in (2024..2026) \X (1..12) \X (1..31) : u[3] <= DaysInMonth(u[1], u[2])}}

\* a call of get_remaining_months for the stored goal at the date of the clock
EvalRemainingMonths(p) ==
    /\ req[p].pc = "idle"
    /\ req' = [req EXCEPT ![p] =
                  [op |-> "get_remaining_months", pc |-> "done",
                   start_date |-> goal[1].start_date,
                   total_months |-> goal[1].total_months,
                   clock |-> today,
                   value |-> GetRemainingMonths(goal[1].start_date,
                                                goal[1].total_months, today)]]
    /\ UNCHANGED <<goal, debts, nextDebtId, txs, nextTxId, budgets, today>>

InitMonths ==
    /\ \E sd \in StartDates, tm \in MonthValues :
          goal = <<GoalRow([DefaultGoal EXCEPT !.start_date = sd, !.total_months = tm])>>
    /\ debts = <<>>
    /\ nextDebtId = 1
    /\ txs = <<>>
    /\ nextTxId = 1
    /\ budgets = <<>>
    /\ today \in ClockDates
    /\ req = [p \in Requests |-> Idle]

NextMonths ==
    \/ \E p \in Alone : EvalRemainingMonths(p)
    \/ \E p \in Alone : GetDashboard(p)
    \/ \E p \in Alone : Return(p)

SpecMonths == InitMonths /\ [][NextMonths]_vars

(***************************************************************************)
(* SpecRead: one client with a get_dashboard request in flight while the   *)
(* create_transaction, delete_transaction and pay_debt requests of another *)
(* commit.                                                                 *)
(***************************************************************************)
\* expenses dated today
ReadTxPayloads ==
    [amount : 1..MaxAmount, type : {"expense"}, category : {"food"}, date : {None}]

Writer == {2}

\* a goal and one open debt
InitRead ==
    /\ goal = <<GoalRow(DefaultGoal)>>
    /\ debts = <<NewDebt(1, MaxAmount, None, 1)>>
    /\ nextDebtId = 2
    /\ txs = <<>>
    /\ nextTxId = 1
    /\ budgets = <<>>
    /\ today = LastDay
    /\ req = [p \in Requests |-> Idle]

NextRead ==
    \/ \E p \in Alone : GetDashboard(p)
    \/ \E p \in Writer : CreateTransaction(p, ReadTxPayloads)
    \/ \E p \in Writer : DeleteTransaction(p, TxIds)
    \/ \E p \in Writer : PayDebt(p, {1}, {MaxAmount})
    \/ \E p \in Requests : Return(p)

SpecRead == InitRead /\ [][NextRead]_vars

(***************************************************************************)
(* SpecAlerts: the category alerts of the dashboard over expenses of two   *)
(* categories and the budgets that set_budget stores.                      *)
(***************************************************************************)
\* expenses of either category, dated today
AlertTxPayloads ==
    [amount : 1..MaxAmount, type : {"expense"}, category : Categories, date : {None}]

\* the rows two set_budget requests for food leave when both ran their
\* select before either committed (SpecBudget)
TwoFoodBudgets ==
    <<[id |-> 1, category |-> "food", monthly_limit |-> 1],
      [id |-> 2, category |-> "food", monthly_limit |-> MaxAmount]>>

\* no budget yet, or those two rows
InitAlerts ==
    /\ goal = <<GoalRow(DefaultGoal)>>
    /\ debts = <<>>
    /\ nextDebtId = 1
    /\ txs = <<>>
    /\ nextTxId = 1
    /\ budgets \in {<<>>, TwoFoodBudgets}
    /\ today = LastDay
    /\ req = [p \in Requests |-> Idle]

NextAlerts ==
    \/ \E p \in Alone : SetBudget(p, BudgetPayloads)
    \/ \E p \in Alone : CreateTransaction(p, AlertTxPayloads)
    \/ \E p \in Alone : GetDashboard(p)
    \/ \E p \in Alone : Return(p)

SpecAlerts == InitAlerts /\ [][NextAlerts]_vars

(***************************************************************************)
(* SpecGoal: the dashboard over goals of any targets and plan lengths,     *)
(* with income and expenses recorded and the one debt paid down.           *)
(***************************************************************************)
\* UserGoalCreate payloads: the targets are unconstrained floats, the plan
\* length an unconstrained int; 12 * MaxYear months carry the end date past
\* MaxYear
AnyGoalPayloads ==
    {[DefaultGoal EXCEPT !.total_months = tm, !.savings_target = st,
                         !.initial_total_debt = itd] :
        tm \in {12, 12 * MaxYear}, st \in -1..MaxAmount, itd \in {-1, 0, MaxAmount}}

\* income and expenses of 1 and of MaxAmount, dated today
GoalTxPayloads ==
    [amount : {1, MaxAmount}, type : {"income", "expense"}, category : {"food"},
     date : {None}]

\* no goal yet, and one debt as create_debt(total_amount = t) stores it
InitGoal ==
    /\ goal = <<>>
    /\ \E t \in {-1, 0, MaxAmount} : debts = <<NewDebt(1, t, None, 1)>>
    /\ nextDebtId = 2
    /\ txs = <<>>
    /\ nextTxId = 1
    /\ budgets = <<>>
    /\ today = LastDay
    /\ req = [p \in Requests |-> Idle]

NextGoal ==
    \/ \E p \in Alone : CreateUserGoal(p, AnyGoalPayloads)
    \/ \E p \in Alone : CreateTransaction(p, GoalTxPayloads)
    \/ \E p \in Alone : PayDebt(p, {1}, ValidAmounts)
    \/ \E p \in Alone : GetDashboard(p)
    \/ \E p \in Alone : Return(p)

SpecGoal == InitGoal /\ [][NextGoal]_vars

(***************************************************************************)
(* SpecBudget: two clients, each with one set_budget request, in flight    *)
(* together.                                                               *)
(***************************************************************************)
\* no budget yet, or the one an earlier set_budget("food", 0) stored
InitBudget ==
    /\ goal = <<GoalRow(DefaultGoal)>>
    /\ debts = <<>>
    /\ nextDebtId = 1
    /\ txs = <<>>
    /\ nextTxId = 1
    /\ budgets \in {<<>>, <<NewBudget(<<>>, [category |-> "food", monthly_limit |-> 0])>>}
    /\ today = LastDay
    /\ req = [p \in Requests |-> Idle]

NextBudget ==
    \E p \in Requests : SetBudget(p, BudgetPayloads)

SpecBudget == InitBudget /\ [][NextBudget]_vars

(***************************************************************************)
(* SpecTx: create_transaction with any payload the schema accepts, while   *)
(* a second client creates transactions too.                               *)
(***************************************************************************)
\* TransactionCreate takes any float as amount and any string as type
AnyTxPayloads ==
    [amount : AmountValues, type : {"income", "expense", "transfer"},
     category : {"food"}, date : {None}]

NextTx ==
    \/ \E p \in Alone : CreateTransaction(p, AnyTxPayloads)
    \/ \E p \in Writer : CreateTransaction(p, ReadTxPayloads)
    \/ \E p \in Alone : DeleteTransaction(p, TxIds)
    \/ \E p \in Alone : GetDashboard(p)
    \/ \E p \in Requests : Return(p)

SpecTx == Init /\ [][NextTx]_vars

(***************************************************************************)
(* SpecLedger: payments over a ledger that holds two debts, a transaction  *)
(* and a budget beside the goal; a second client sends one payment of 1    *)
(* while a request of the first is in flight.                              *)
(***************************************************************************)
\* the two debts, the expense and the budget as their handlers store them
InitLedger ==
    /\ goal = <<GoalRow(DefaultGoal)>>
    /\ debts = <<NewDebt(1, MaxAmount, None, 1), NewDebt(2, 1, None, 2)>>
    /\ nextDebtId = 3
    /\ txs = <<NewTransaction(1, [amount |-> 1, type |-> "expense",
                                  category |-> "food", date |-> None], LastDay, 1)>>
    /\ nextTxId = 2
    /\ budgets = <<NewBudget(<<>>, [category |-> "food", monthly_limit |-> 1])>>
    /\ today = LastDay
    /\ req = [p \in Requests |-> Idle]

NextLedger ==
    \/ \E p \in Alone : PayDebt(p, 1..3, AmountValues)
    \/ \E p \in Writer : PayDebt(p, 1..2, {1})
    \/ \E p \in Alone : DeleteDebt(p, 1..3)
    \/ \E p \in Alone : ListDebts(p)
    \/ \E p \in Alone : GetDashboard(p)
    \/ \E p \in Alone : Return(p)

SpecLedger == InitLedger /\ [][NextLedger]_vars

(***************************************************************************)
(* SpecSetup: a user with no goal yet who calls initialize_data,           *)
(* create_user_goal, create_transaction and the dashboard.                 *)
(***************************************************************************)
\* nothing stored yet
InitSetup ==
    /\ goal = <<>>
    /\ debts = <<>>
    /\ nextDebtId = 1
    /\ txs = <<>>
    /\ nextTxId = 1
    /\ budgets = <<>>
    /\ today = LastDay
    /\ req = [p \in Requests |-> Idle]

NextSetup ==
    \/ \E p \in Alone : InitializeData(p)
    \/ \E p \in Alone : CreateUserGoal(p, GoalPayloads)
    \/ \E p \in Alone : CreateTransaction(p, TxPayloads)
    \/ \E p \in Alone : GetDashboard(p)
    \/ \E p \in Alone : Return(p)

SpecSetup == InitSetup /\ [][NextSetup]_vars

(***************************************************************************)
(* SpecTwice: two clients read the dashboard, their calls in flight        *)
(* together or one after the other; the second reads it once.  The first   *)
(* also sets the goal and records expenses of 1, and midnight passes at    *)
(* any moment.                                                             *)
(***************************************************************************)
NextTwice ==
    \/ \E p \in Alone : CreateUserGoal(p, GoalPayloads)
    \/ \E p \in Alone : CreateTransaction(p, {[amount |-> 1, type |-> "expense",
                                                category |-> "food", date |-> None]})
    \/ \E p \in Requests : GetDashboard(p)
    \/ \E p \in Alone : Return(p)
    \/ Tick

SpecTwice == InitDash /\ [][NextTwice]_vars


(***************************************************************************)
(* Claims about the debt ledger (Spec).                                    *)
(***************************************************************************)
\* the request of the first client, and whether its handler has returned
resp == req[1]
Answered == resp.pc = "done"

PaidOk == Answered /\ resp.op = "pay_debt" /\ resp.status = 200

\* C1: every stored debt has 0 <= remaining_amount <= total_amount, and
\* is_cleared is true exactly when remaining_amount is 0.
C1_DebtInvariant ==
    \A i \in 1..Len(debts) :
        /\ 0 <= debts[i].remaining_amount
        /\ debts[i].remaining_amount <= debts[i].total_amount
        /\ debts[i].is_cleared <=> (debts[i].remaining_amount = 0)

\* C2: a pay_debt request with a negative amount is rejected and leaves the
\* debt as the handler loaded it.
C2_NegativePaymentRejected ==
    (Answered /\ resp.op = "pay_debt" /\ resp.amount < 0) =>
        /\ resp.status # 200
        /\ "loaded" \in DOMAIN resp =>
              FindRow(debts, resp.debt_id) = Some(resp.loaded)

\* C3: a pay_debt call on a cleared debt (is_cleared, remaining_amount 0)
\* leaves it cleared, whatever the amount.
C3_ClearedStaysCleared ==
    (PaidOk /\ resp.loaded.is_cleared /\ resp.loaded.remaining_amount = 0) =>
        /\ resp.body.is_cleared
        /\ resp.body.remaining_amount = 0

\* C6: a payment of at least the remaining balance leaves remaining_amount 0
\* and is_cleared true, in the table and in the response, and the response
\* reports 100.0 percent when total_amount > 0.
C6_FullPaymentClears ==
    (PaidOk /\ resp.amount >= resp.loaded.remaining_amount) =>
        /\ resp.body.remaining_amount = 0
        /\ resp.body.is_cleared
        /\ LET row == FindRow(debts, resp.debt_id)[1]
           IN  row.remaining_amount = 0 /\ row.is_cleared
        /\ resp.body.total_amount > 0 => resp.body.progress_percent = 1000

\* an overpayment of an open debt was clamped
C6_Witness ==
    /\ PaidOk
    /\ resp.loaded.remaining_amount > 0
    /\ resp.amount > resp.loaded.remaining_amount
    /\ resp.body.remaining_amount = 0
    /\ resp.body.is_cleared
    /\ resp.body.progress_percent = 1000

\* the progress_percent values of the response just returned
ReportedProgress ==
    IF Answered /\ resp.op = "list_debts" THEN {resp.body[i].progress_percent : i \in 1..Len(resp.body)}
    ELSE IF PaidOk THEN {resp.body.progress_percent}
    ELSE IF Answered /\ resp.op = "get_dashboard" /\ resp.status = 200
    THEN {resp.body.debts[i].progress_percent : i \in 1..Len(resp.body.debts)}
    ELSE {}

\* C7: every progress_percent reported by list_debts, pay_debt and
\* get_dashboard lies in [0, 100], and a payment never lowers a debt's
\* progress_percent.
C7_ProgressBoundedMonotone ==
    /\ \A p \in ReportedProgress : 0 <= p /\ p <= 1000
    /\ PaidOk => resp.body.progress_percent >= DebtProgress(resp.loaded)

(***************************************************************************)
(* Claims about concurrent payments (SpecPay).                             *)
(***************************************************************************)
\* both requests paid debt 1 and returned 200
BothPaid ==
    \A p \in Requests :
        req[p].pc = "done" /\ req[p].status = 200 /\ req[p].debt_id = 1

\* C4: when two concurrent valid payments a and b of the same debt have both
\* returned, remaining_amount is max(0, r - a - b); r is the balance before
\* both, which in SpecPay is the debt's total_amount.
C4_NoLostUpdate ==
    BothPaid =>
        debts[1].remaining_amount =
            Max(0, debts[1].total_amount - req[1].amount - req[2].amount)

(***************************************************************************)
(* Claims about the dashboard (SpecDash).                                  *)
(***************************************************************************)
DashOk == Answered /\ resp.op = "get_dashboard" /\ resp.status = 200

\* C9: two get_dashboard calls that read the same goal, debts, budgets and
\* transactions and report the same reference date (today.date) return the
\* same snapshot, and no step of a get_dashboard call changes a goal, debt,
\* budget or transaction row.  (Checked in SpecTwice.)
C9_DashboardPure ==
    /\ [](LET a == req[1]
              b == req[2]
          IN  (/\ \A p \in Requests : /\ req[p].pc = "done"
                                      /\ req[p].op = "get_dashboard"
                                      /\ req[p].status = 200
               /\ a.g = b.g /\ a.ds = b.ds /\ a.bs = b.bs
               /\ a.today_tx = b.today_tx /\ a.month_tx = b.month_tx
               /\ a.all_tx = b.all_tx
               /\ a.body.today.date = b.body.today.date)
              => a.body = b.body)
    /\ [][\A p \in Requests :
             (req'[p] # req[p] /\ req'[p].op = "get_dashboard") =>
                 UNCHANGED <<goal, debts, budgets, txs>>]_vars

\* the expense of the day of the snapshot, summed from the table
TodaysExpense == ExpenseSum(TodayRows(txs, resp.body.today.date))

DailyBudgetAlerts == SelectSeq(resp.body.alerts, LAMBDA a : a.category = "daily_budget")

\* C10: with remaining = daily_budget_limit - today's expense, a snapshot
\* carries exactly one daily_budget alert, an error, when remaining < 0;
\* exactly one, a warning, when 0 <= remaining < 0.2 * daily_budget_limit;
\* and none otherwise.
C10_DailyBudgetAlert ==
    DashOk =>
        LET limit == goal[1].daily_budget_limit
            remaining == limit - TodaysExpense
        IN  /\ remaining < 0 =>
                  Len(DailyBudgetAlerts) = 1 /\ DailyBudgetAlerts[1].type = "error"
            /\ (remaining >= 0 /\ 5 * remaining < limit) =>
                  Len(DailyBudgetAlerts) = 1 /\ DailyBudgetAlerts[1].type = "warning"
            /\ (remaining >= 0 /\ 5 * remaining >= limit) => DailyBudgetAlerts = <<>>
            /\ Len(DailyBudgetAlerts) <= 1

\* a snapshot with the warning: some budget is left, less than a fifth
C10_Witness ==
    /\ DashOk
    /\ resp.body.today.expense > 0
    /\ resp.body.today.remaining_budget >= 0
    /\ Len(DailyBudgetAlerts) = 1
    /\ DailyBudgetAlerts[1].type = "warning"

(***************************************************************************)
(* Claims about get_remaining_months (SpecMonths).                         *)
(***************************************************************************)
\* C8: get_remaining_months returns at least 1 for every start date, plan
\* length and reference date, so the remaining_months of a snapshot is at
\* least 1 and monthly_target is the rounded quotient remaining /
\* remaining_months, never the result of a division by zero.
C8_RemainingMonthsPositive ==
    /\ (Answered /\ resp.op = "get_remaining_months") => resp.value >= 1
    /\ DashOk =>
          /\ resp.body.yearly_goal.remaining_months >= 1
          /\ resp.body.yearly_goal.monthly_target =
                RoundHalfEven(resp.body.yearly_goal.remaining,
                              resp.body.yearly_goal.remaining_months)

\* a valid plan (total_months >= 1) that has not ended at the reference date
\* and whose month difference already uses up total_months
C8_Witness ==
    /\ Answered
    /\ resp.op = "get_remaining_months"
    /\ resp.total_months >= 1
    /\ DateLT(resp.clock, AddMonths(resp.start_date, resp.total_months))
    /\ (resp.clock.year - resp.start_date.year) * 12
         + (resp.clock.month - resp.start_date.month) >= resp.total_months
    /\ resp.value = 1

(***************************************************************************)
(* Claims about concurrent requests (SpecRead).                            *)
(***************************************************************************)
RowIds(rows) == {rows[i].id : i \in 1..Len(rows)}

\* C5: in a returned snapshot every expense summed into today.expense is
\* also summed into monthly.expense and into the all-time expense, so
\* today.expense <= monthly.expense <= all-time expense.
C5_ConsistentReads ==
    DashOk =>
        /\ RowIds(SelectSeq(resp.today_tx, IsExpense))
              \subseteq RowIds(SelectSeq(resp.month_tx, IsExpense))
        /\ RowIds(SelectSeq(resp.month_tx, IsExpense))
              \subseteq RowIds(SelectSeq(resp.all_tx, IsExpense))
        /\ resp.body.today.expense <= resp.body.monthly.expense
        /\ resp.body.monthly.expense <= ExpenseSum(resp.all_tx)

(***************************************************************************)
(* Claims about the category alerts (SpecAlerts).                          *)
(***************************************************************************)
CategoryBudgetAlerts ==
    SelectSeq(resp.body.alerts, LAMBDA a : a.category = "category_budget")

\* the limit in force for a category: that of its budget row, of the last
\* one when it has several (line 542), and 0 without one
LimitInForce(cat) ==
    LET rows == SelectSeq(budgets, LAMBDA b : b.category = cat)
    IN  IF rows = <<>> THEN 0 ELSE rows[Len(rows)].monthly_limit

\* C11: for each category with expense this month a snapshot carries at
\* most one category_budget alert: an error when limit > 0 and spent >
\* limit, else a warning when limit > 0 and spent > 0.8 * limit, and none
\* when the category has no budget or a limit of 0; there are never more
\* category_budget alerts than keys in by_category.
C11_CategoryBudgetAlert ==
    DashOk =>
        /\ Len(CategoryBudgetAlerts) <= Len(resp.body.monthly.by_category)
        /\ \A i \in 1..Len(resp.body.monthly.by_category) :
              LET item == resp.body.monthly.by_category[i]
                  limit == LimitInForce(item.category)
                  mine == SelectSeq(CategoryBudgetAlerts,
                                    LAMBDA a : a.label = item.category)
              IN  /\ Len(mine) <= 1
                  /\ (limit > 0 /\ item.spent > limit) =>
                        Len(mine) = 1 /\ mine[1].type = "error"
                                      /\ mine[1].amount = item.spent - limit
                  /\ (limit > 0 /\ item.spent <= limit /\ 5 * item.spent > 4 * limit) =>
                        Len(mine) = 1 /\ mine[1].type = "warning"
                  /\ (limit > 0 /\ 5 * item.spent <= 4 * limit) => mine = <<>>
                  /\ limit <= 0 => mine = <<>>

\* a snapshot with an error for one category and a warning for the other
C11_Witness ==
    /\ DashOk
    /\ Len(resp.body.monthly.by_category) = 2
    /\ Len(CategoryBudgetAlerts) = 2
    /\ CategoryBudgetAlerts[1].type # CategoryBudgetAlerts[2].type

(***************************************************************************)
(* Claims about the computed savings and percentages (SpecGoal).           *)
(***************************************************************************)
\* paid_debt from the tables: initial_total_debt less what is still owed on
\* the debts that are not cleared
PaidDebt ==
    LET open == SelectSeq(debts, LAMBDA d : ~d.is_cleared)
    IN  goal[1].initial_total_debt
        - SumSeq([i \in 1..Len(open) |-> open[i].remaining_amount])

\* the snapshot get_dashboard would have returned had the stored
\* current_savings been v
SnapshotWithStored(v) ==
    Dashboard([goal[1] EXCEPT !.current_savings = v], debts, budgets,
              TodayRows(txs, resp.body.today.date),
              MonthRows(txs, resp.body.today.date),
              txs, resp.body.today.date, resp.clock2)

\* C12: in every snapshot savings.current is initial_savings + all income -
\* all expense - paid_debt, with paid_debt = initial_total_debt - the
\* remaining amounts of the debts not cleared, and the snapshot is the same
\* whatever the stored goal.current_savings is.
C12_SavingsComputed ==
    DashOk =>
        /\ resp.body.yearly_goal.paid_debt = PaidDebt
        /\ resp.body.savings.current =
              goal[1].initial_savings + IncomeSum(txs) - ExpenseSum(txs) - PaidDebt
        /\ \A v \in -1..(MaxAmount + 1) : SnapshotWithStored(v) = resp.body

\* a snapshot after a payment, an income and an expense, whose computed
\* savings differ from the stored current_savings
C12_Witness ==
    /\ DashOk
    /\ resp.body.yearly_goal.paid_debt > 0
    /\ IncomeSum(txs) > 0
    /\ ExpenseSum(txs) > 0
    /\ resp.body.savings.current # goal[1].current_savings

\* C13: in every snapshot yearly_goal.progress_percent,
\* savings.progress_percent and every debt's progress_percent are at least
\* 0 and at most 100.
C13_NoImpossibleValue ==
    DashOk =>
        /\ 0 <= resp.body.yearly_goal.progress_percent
        /\ resp.body.yearly_goal.progress_percent <= 1000
        /\ 0 <= resp.body.savings.progress_percent
        /\ resp.body.savings.progress_percent <= 1000
        /\ \A i \in 1..Len(resp.body.debts) :
              /\ 0 <= resp.body.debts[i].progress_percent
              /\ resp.body.debts[i].progress_percent <= 1000

\* C14: a percentage whose denominator is zero or negative is 0: the yearly
\* progress_percent when savings_target + initial_total_debt <= 0, the
\* savings progress_percent when savings_target <= 0, a debt's
\* progress_percent when its total_amount <= 0; otherwise the yearly
\* progress_percent is current_progress / total_target * 100 rounded to one
\* decimal (no further than 0.05 from the ratio), values above 100 included.
C14_GuardedPercentages ==
    DashOk =>
        LET g == goal[1]
            total_target == g.savings_target + g.initial_total_debt
            yearly == resp.body.yearly_goal
        IN  /\ yearly.total_target = total_target
            /\ total_target <= 0 => yearly.progress_percent = 0
            /\ g.savings_target <= 0 => resp.body.savings.progress_percent = 0
            /\ \A i \in 1..Len(resp.body.debts) :
                  resp.body.debts[i].total_amount <= 0 =>
                      resp.body.debts[i].progress_percent = 0
            /\ total_target > 0 =>
                  2 * Abs(yearly.progress_percent * total_target
                          - 1000 * yearly.current_progress) <= total_target

\* a snapshot whose yearly percentage is above 100, and one computed over a
\* debt with total_amount <= 0
C14_Witness ==
    /\ DashOk
    /\ resp.body.yearly_goal.progress_percent > 1000
    /\ resp.body.debts[1].total_amount <= 0

\* C15: get_dashboard answers 404 exactly when no goal exists, and returns a
\* snapshot in every state in which a goal exists.
C15_OnlyMissingGoalAborts ==
    (Answered /\ resp.op = "get_dashboard") =>
        /\ resp.status = 404 <=> goal = <<>>
        /\ goal # <<>> => resp.status = 200

(***************************************************************************)
(* Claims about concurrent set_budget requests (SpecBudget).               *)
(***************************************************************************)
\* C16: under any interleaving of set_budget calls there is at most one
\* Budget row per category, and when a set_budget commits, the row of its
\* category holds its monthly_limit.
C16_OneBudgetPerCategory ==
    [][/\ \A i, j \in 1..Len(budgets') :
             budgets'[i].category = budgets'[j].category => i = j
       /\ \A p \in Requests :
             (req[p].pc = "loaded" /\ req'[p].pc = "committed"
                                  /\ req[p].op = "set_budget") =>
                 \A i \in 1..Len(budgets') :
                     budgets'[i].category = req[p].category =>
                         budgets'[i].monthly_limit = req[p].monthly_limit]_vars

(***************************************************************************)
(* Claims about stored transactions (SpecTx).                              *)
(***************************************************************************)
\* C17: every stored transaction has amount > 0 and type income or expense,
\* and a create_transaction request with a non-positive amount is rejected
\* and stores nothing.
C17_ValidTransactions ==
    /\ \A i \in 1..Len(txs) :
          txs[i].amount > 0 /\ txs[i].type \in {"income", "expense"}
    /\ (Answered /\ resp.op = "create_transaction" /\ resp.payload.amount <= 0) =>
          resp.status # 200

(***************************************************************************)
(* Further claims about the debt ledger (Spec, SpecLedger).                *)
(***************************************************************************)
\* C18: create_debt stores remaining_amount equal to the starting balance
\* the request supplies, whatever its value, and equal to total_amount when
\* the request supplies none.
C18_StartingBalanceStored ==
    (Answered /\ resp.op = "create_debt") =>
        LET row == FindRow(debts, resp.row_id)[1]
        IN  row.remaining_amount =
                IF IsNone(resp.remaining_amount) THEN resp.total_amount
                ELSE resp.remaining_amount[1]

(***************************************************************************)
(* Claims about the month window (SpecMonths).                             *)
(***************************************************************************)
\* C19: the month window of a get_dashboard call starts on the first day of
\* the reference date's month and ends on the last day of that same month
\* (the day after it is the first of the next month), and the reference
\* date lies inside it.
C19_MonthWindow ==
    DashOk =>
        LET d == resp.body.today.date
            s == resp.month_start
            e == resp.month_end
        IN  /\ s = Date(d.year, d.month, 1)
            /\ e.year = d.year /\ e.month = d.month
            /\ e.day = DaysInMonth(d.year, d.month)
            /\ NextDay(e).day = 1
            /\ NextDay(e).month = (IF d.month = 12 THEN 1 ELSE d.month + 1)
            /\ DateLE(s, d) /\ DateLE(d, e)

\* a snapshot for a date inside December whose window ends on 31 December
C19_Witness ==
    /\ DashOk
    /\ resp.body.today.date.month = 12
    /\ resp.body.today.date.day \in 2..30
    /\ resp.month_end = Date(resp.body.today.date.year, 12, 31)

\* C20: no step of a pay_debt call changes the goal, a transaction, a
\* budget or a debt other than the addressed one, and no step of any
\* operation changes the total_amount of a debt.
C20_PayDebtFrame ==
    [][/\ \A p \in Requests :
             (req'[p] # req[p] /\ req'[p].op = "pay_debt") =>
                 /\ UNCHANGED <<goal, txs, budgets>>
                 /\ Len(debts') = Len(debts)
                 /\ \A i \in 1..Len(debts) :
                       /\ debts'[i].id = debts[i].id
                       /\ debts[i].id # req'[p].debt_id => debts'[i] = debts[i]
       /\ \A i \in 1..Len(debts), j \in 1..Len(debts') :
             debts[i].id = debts'[j].id =>
                 debts'[j].total_amount = debts[i].total_amount]_vars

\* a payment changed the addressed debt while another debt, a transaction
\* and a budget were in the tables
C20_Witness ==
    /\ PaidOk
    /\ resp.amount > 0
    /\ resp.body.remaining_amount < resp.loaded.remaining_amount
    /\ Len(debts) = 2
    /\ Len(txs) > 0
    /\ Len(budgets) > 0

(***************************************************************************)
(* Claims about the reference date (SpecDash, SpecMonths).                 *)
(***************************************************************************)
\* C21: in one snapshot remaining_months is computed against the date that
\* today.date reports and the month window is built on, also when the date
\* changes while the call runs.
C21_SingleReferenceDate ==
    DashOk =>
        /\ resp.month_start = MonthStart(resp.body.today.date)
        /\ resp.body.yearly_goal.remaining_months =
              GetRemainingMonths(goal[1].start_date, goal[1].total_months,
                                 resp.body.today.date)

(***************************************************************************)
(* Claims about initialize_data (SpecSetup).                               *)
(***************************************************************************)
\* C22: an initialize_data call made when no goal exists succeeds and adds
\* one goal, three debts and eight budgets, the goal's initial_total_debt
\* being the sum of the three debts' total_amount; a call made when a goal
\* exists answers 400 and adds no goal, debt or budget.
C22_InitializeOnce ==
    [][(req[1].op # "initialize_data" /\ req'[1].op = "initialize_data") =>
          IF goal # <<>>
          THEN /\ req'[1].status = 400
               /\ UNCHANGED <<goal, debts, budgets>>
          ELSE /\ req'[1].status = 201
               /\ Len(goal') = 1
               /\ Len(debts') = Len(debts) + 3
               /\ Len(budgets') = Len(budgets) + 8
               /\ goal'[1].initial_total_debt =
                     SumSeq([i \in 1..3 |->
                                debts'[Len(debts) + i].total_amount])]_vars

(***************************************************************************)
(* Claims about what debt operations do to the snapshot (Spec).            *)
(***************************************************************************)
\* the snapshot get_dashboard returns in the current state
Snapshot ==
    Dashboard(goal[1], debts, budgets, TodayRows(txs, today),
              MonthRows(txs, today), txs, today, today)

\* the debt table as it was before the pay_debt call just answered: the
\* addressed row as the handler loaded it
DebtsBeforePayment ==
    [i \in 1..Len(debts) |->
        IF debts[i].id = resp.debt_id THEN resp.loaded ELSE debts[i]]

\* the snapshot get_dashboard returned before that call
SnapshotBefore ==
    Dashboard(goal[1], DebtsBeforePayment, budgets, TodayRows(txs, today),
              MonthRows(txs, today), txs, today, today)

\* C23: across a pay_debt call with amount >= 0 the snapshot keeps its
\* yearly_goal.current_progress, yearly_goal.remaining and
\* savings.net_worth, and its savings.current falls by exactly the
\* reduction of the debt's remaining_amount.
C23_PaymentMovesValue ==
    (PaidOk /\ resp.amount >= 0) =>
        LET before == SnapshotBefore
            after == Snapshot
        IN  /\ after.yearly_goal.current_progress = before.yearly_goal.current_progress
            /\ after.yearly_goal.remaining = before.yearly_goal.remaining
            /\ after.savings.net_worth = before.savings.net_worth
            /\ after.savings.current =
                  before.savings.current
                  - (resp.loaded.remaining_amount - resp.body.remaining_amount)

\* an overpayment was cut to the balance, and the snapshot counts the whole
\* initial debt as paid
C23_Witness ==
    /\ PaidOk
    /\ resp.loaded.remaining_amount > 0
    /\ resp.amount > resp.loaded.remaining_amount
    /\ Snapshot.yearly_goal.paid_debt = goal[1].initial_total_debt
    /\ Snapshot.savings.current = goal[1].initial_savings - goal[1].initial_total_debt

Created == Answered /\ resp.op = "create_debt" /\ resp.status = 200
Deleted == Answered /\ resp.op = "delete_debt" /\ resp.status = 204

\* the debt table as it was before the debt operation just answered: without
\* the row created, with the row deleted back in its place, or with the row
\* paid as the handler loaded it
DebtsBefore ==
    IF Created THEN DeleteRow(debts, resp.row_id)
    ELSE IF Deleted THEN InsertRow(debts, resp.loaded)
    ELSE IF PaidOk THEN DebtsBeforePayment
    ELSE debts

\* the snapshot get_dashboard returned before that operation
SnapshotBeforeDebtOp ==
    Dashboard(goal[1], DebtsBefore, budgets, TodayRows(txs, today),
              MonthRows(txs, today), txs, today, today)

\* what a debt row adds to the outstanding debt of the snapshot
Outstanding(d) == IF d.is_cleared THEN 0 ELSE d.remaining_amount

\* C24: from a state in which initial_total_debt equals the outstanding
\* debt (paid_debt is 0), a create_debt or delete_debt call leaves
\* paid_debt and savings.current unchanged, and a pay_debt call raises
\* paid_debt by the balance reduction it makes.
C24_PaidDebtOnlyPayments ==
    LET before == SnapshotBeforeDebtOp
        after == Snapshot
    IN  before.yearly_goal.paid_debt = 0 =>
            /\ (Created \/ Deleted) =>
                  /\ after.yearly_goal.paid_debt = 0
                  /\ after.savings.current = before.savings.current
            /\ PaidOk =>
                  after.yearly_goal.paid_debt =
                      resp.loaded.remaining_amount - resp.body.remaining_amount

\* C24 as amended: paid_debt is initial_total_debt less the outstanding
\* debt, so a pay_debt call raises it by the balance reduction it makes, a
\* create_debt call lowers it by the new debt's starting balance, and a
\* delete_debt call raises it by what the deleted debt still had
\* outstanding; savings.current moves by the same amount the other way.
C24_PaidDebtTracksOutstanding ==
    LET before == SnapshotBeforeDebtOp
        after == Snapshot
        change == after.yearly_goal.paid_debt - before.yearly_goal.paid_debt
    IN  /\ Created =>
              change = - FindRow(debts, resp.row_id)[1].remaining_amount
        /\ Deleted =>
              change = Outstanding(resp.loaded)
        /\ PaidOk =>
              change = resp.loaded.remaining_amount - resp.body.remaining_amount
        /\ (Created \/ Deleted \/ PaidOk) =>
              after.savings.current = before.savings.current - change

\* an unpaid debt was deleted while paid_debt was 0, and paid_debt is now
\* the balance that debt had
C24_Witness ==
    /\ Deleted
    /\ resp.loaded.remaining_amount = resp.loaded.total_amount
    /\ resp.loaded.remaining_amount > 0
    /\ SnapshotBeforeDebtOp.yearly_goal.paid_debt = 0
    /\ Snapshot.yearly_goal.paid_debt = resp.loaded.remaining_amount

(***************************************************************************)
(* Claims about the range of get_remaining_months (SpecMonths).            *)
(***************************************************************************)
\* the last call of get_remaining_months was for a plan of at least a month
MonthsCall ==
    Answered /\ resp.op = "get_remaining_months" /\ resp.total_months >= 1

\* what the same call returns a day later
ValueNextDay ==
    GetRemainingMonths(resp.start_date, resp.total_months, NextDay(resp.clock))

\* the reference date lies in a month before the month of the start date
BeforeStartMonth ==
    DateLT(resp.clock, MonthStart(resp.start_date))

\* C25: for total_months >= 1 and every reference date,
\* get_remaining_months returns a value from 1 to total_months, and the
\* value does not increase when the reference date advances.
C25_RemainingMonthsWithinPlan ==
    MonthsCall =>
        /\ 1 <= resp.value
        /\ resp.value <= resp.total_months
        /\ ValueNextDay <= resp.value

\* C25 as amended: for total_months >= 1 the value is from 1 to
\* total_months when the reference date is not in a month before the month
\* of the start date, it is total_months plus the number of months up to
\* the start month when it is, and in both cases it does not increase when
\* the reference date advances.
C25_RemainingMonthsFromStart ==
    MonthsCall =>
        /\ 1 <= resp.value
        /\ ~BeforeStartMonth => resp.value <= resp.total_months
        /\ BeforeStartMonth =>
              resp.value = resp.total_months
                           + (resp.start_date.year - resp.clock.year) * 12
                           + (resp.start_date.month - resp.clock.month)
        /\ ValueNextDay <= resp.value

\* a call on the last day of a month inside the plan: the value is
\* strictly between 1 and total_months and is lower a day later
C25_Witness ==
    /\ MonthsCall
    /\ ~BeforeStartMonth
    /\ 1 < resp.value
    /\ resp.value < resp.total_months
    /\ ValueNextDay < resp.value

====
